---- MODULE Spec2Model ----
(***************************************************************************)
(* Model of generate_query (src/_notebooks/resources/config.py).           *)
(*                                                                         *)
(* A Python str is modelled as a sequence of one-character strings, so     *)
(* that str.replace and the f-string are computed character by character.  *)
(* A call is split into the statements of the function body: the f-string  *)
(* (FormatStep), one iteration of the for loop (LoopStep) and the return   *)
(* (ReturnStep).  Several callers may run calls at the same time; every    *)
(* caller has its own frame (arguments, raw_query, loop index).            *)
(***************************************************************************)
EXTENDS Integers, Sequences, FiniteSets, TLC

(* ---------------------------- bounds ---------------------------------- *)

MaxLen == 2
MaxLimit == 10
NumCallers == 2
MaxCalls == 3

(* ---------------------------- texts ----------------------------------- *)

SP == " "
NL == "\n"

Alphabet == {"a", SP, NL}

TextsUpTo(n) == UNION {[1..k -> Alphabet] : k \in 0..n}

ExampleUrl ==
    <<"h","t","t","p","s",":","/","/","e","x","a","m","p","l","e",".","o","r","g",
      "/","r","e","s","o","u","r","c","e">>

SelectStar == <<"S","E","L","E","C","T",SP,"*">>
ABNewlineC == <<"a",SP,"b",NL,"c">>
Marker == <<"%","2","0">>
Reserved == <<"&","#","?","$","%">>
PercentSpace == <<"%",SP,"2","0">>

Endpoints == TextsUpTo(MaxLen) \cup {ExampleUrl}
Queries == TextsUpTo(MaxLen) \cup {SelectStar, ABNewlineC, Marker, Reserved, PercentSpace}
Limits == (-1)..MaxLimit

CallEndpoints == {<<"a", SP>>}
CallQueries == {<<SP>>, <<NL, "a">>}
CallLimits == {0, 5}

Callers == 1..NumCallers
FnCaller == 1

(* ------------------------- str(limit) --------------------------------- *)

DigitChar(d) == <<"0","1","2","3","4","5","6","7","8","9">>[d + 1]

RECURSIVE NatToStr(_)
NatToStr(n) ==
    IF n < 10 THEN <<DigitChar(n)>>
    ELSE NatToStr(n \div 10) \o <<DigitChar(n % 10)>>

IntToStr(n) == IF n < 0 THEN <<"-">> \o NatToStr(-n) ELSE NatToStr(n)

(* ------------------------- the f-string ------------------------------- *)

QueryParam == <<"?","$","q","u","e","r","y","=">>
LimitClause == <<"l","i","m","i","t",SP>>

FormatNoSeparator(endpoint_url, query, limit) ==
    endpoint_url \o QueryParam \o query \o LimitClause \o IntToStr(limit)

FormatNoTemplateSpace(endpoint_url, query, limit) ==
    endpoint_url \o QueryParam \o query \o Marker \o <<"l","i","m","i","t">>
        \o IntToStr(limit)

Format(endpoint_url, query, limit) ==
    endpoint_url \o QueryParam \o query \o Marker \o LimitClause \o IntToStr(limit)

(* ------------------------- str.replace -------------------------------- *)

IsPrefix(p, s) == Len(p) <= Len(s) /\ SubSeq(s, 1, Len(p)) = p

FirstMatch(s, old) ==
    LET hits == {k \in 1..Len(s) : IsPrefix(old, SubSeq(s, k, Len(s)))}
    IN  IF hits = {} THEN 0 ELSE CHOOSE k \in hits : \A m \in hits : k <= m

ReplaceFirstOnly(s, old, new) ==
    LET k == FirstMatch(s, old)
    IN  IF k = 0 THEN s
        ELSE SubSeq(s, 1, k - 1) \o new \o SubSeq(s, k + Len(old), Len(s))

ReplaceNothing(s, old, new) == s

RECURSIVE Replace(_, _, _)
Replace(s, old, new) ==
    IF Len(s) < Len(old) THEN s
    ELSE IF IsPrefix(old, s)
         THEN new \o Replace(SubSeq(s, Len(old) + 1, Len(s)), old, new)
         ELSE <<Head(s)>> \o Replace(Tail(s), old, new)

(* ------------------- the replacements tuple --------------------------- *)

ReplacementsNewlineFirst == << <<(<<NL>>), Marker>>, <<(<<SP>>), Marker>> >>

ReplacementsEscapedNewline == << <<(<<SP>>), Marker>>, <<(<<"\\", "n">>), Marker>> >>

ReplacementsPercentToo ==
    << <<(<<"%">>), <<"%","2","5">> >>, <<(<<SP>>), Marker>>, <<(<<NL>>), Marker>> >>

replacements == << <<(<<SP>>), Marker>>, <<(<<NL>>), Marker>> >>

RECURSIVE ApplyFrom(_, _, _)
ApplyFrom(s, reps, k) ==
    IF k > Len(reps) THEN s
    ELSE ApplyFrom(Replace(s, reps[k][1], reps[k][2]), reps, k + 1)

Substitute(s) == ApplyFrom(s, replacements, 1)

generate_query(endpoint_url, query, limit) ==
    Substitute(Format(endpoint_url, query, limit))

(* ---------------------------- state ----------------------------------- *)

VARIABLES pc, endpoint_url, query, limit, raw_query, idx, result, ncalls, trace

vars == <<pc, endpoint_url, query, limit, raw_query, idx, result, ncalls, trace>>

Init ==
    /\ pc = [c \in Callers |-> "idle"]
    /\ endpoint_url = [c \in Callers |-> <<>>]
    /\ query = [c \in Callers |-> <<>>]
    /\ limit = [c \in Callers |-> 0]
    /\ raw_query = [c \in Callers |-> <<>>]
    /\ idx = [c \in Callers |-> 1]
    /\ result = [c \in Callers |-> <<>>]
    /\ ncalls = 0
    /\ trace = [c \in Callers |-> <<>>]

Call(c) ==
    /\ pc[c] \in {"idle", "done"}
    /\ ncalls < MaxCalls
    /\ \E e \in CallEndpoints, q \in CallQueries, n \in CallLimits :
          /\ endpoint_url' = [endpoint_url EXCEPT ![c] = e]
          /\ query' = [query EXCEPT ![c] = q]
          /\ limit' = [limit EXCEPT ![c] = n]
    /\ pc' = [pc EXCEPT ![c] = "format"]
    /\ raw_query' = [raw_query EXCEPT ![c] = <<>>]
    /\ idx' = [idx EXCEPT ![c] = 1]
    /\ result' = [result EXCEPT ![c] = <<>>]
    /\ trace' = [trace EXCEPT ![c] = <<>>]
    /\ ncalls' = ncalls + 1

FormatStepCounting(c) ==
    /\ pc[c] = "format"
    /\ raw_query' = [raw_query EXCEPT ![c] =
                        Format(endpoint_url[c], query[c], limit[c] + ncalls)]
    /\ pc' = [pc EXCEPT ![c] = "loop"]
    /\ idx' = [idx EXCEPT ![c] = 1]
    /\ trace' = [trace EXCEPT ![c] = Append(@, <<"format">>)]
    /\ UNCHANGED <<endpoint_url, query, limit, result, ncalls>>

FormatStep(c) ==
    /\ pc[c] = "format"
    /\ raw_query' = [raw_query EXCEPT ![c] =
                        Format(endpoint_url[c], query[c], limit[c])]
    /\ pc' = [pc EXCEPT ![c] = "loop"]
    /\ idx' = [idx EXCEPT ![c] = 1]
    /\ trace' = [trace EXCEPT ![c] = Append(@, <<"format">>)]
    /\ UNCHANGED <<endpoint_url, query, limit, result, ncalls>>

LoopStepSharedBuffer(c) ==
    /\ pc[c] = "loop"
    /\ idx[c] <= Len(replacements)
    /\ raw_query' = [d \in Callers |->
                        Replace(raw_query[c], replacements[idx[c]][1],
                                replacements[idx[c]][2])]
    /\ idx' = [idx EXCEPT ![c] = @ + 1]
    /\ trace' = [trace EXCEPT ![c] = Append(@, <<"replace">> \o replacements[idx[c]][1])]
    /\ UNCHANGED <<pc, endpoint_url, query, limit, result, ncalls>>

LoopStep(c) ==
    /\ pc[c] = "loop"
    /\ idx[c] <= Len(replacements)
    /\ raw_query' = [raw_query EXCEPT ![c] =
                        Replace(@, replacements[idx[c]][1], replacements[idx[c]][2])]
    /\ idx' = [idx EXCEPT ![c] = @ + 1]
    /\ trace' = [trace EXCEPT ![c] = Append(@, <<"replace">> \o replacements[idx[c]][1])]
    /\ UNCHANGED <<pc, endpoint_url, query, limit, result, ncalls>>

ReturnStep(c) ==
    /\ pc[c] = "loop"
    /\ idx[c] > Len(replacements)
    /\ result' = [result EXCEPT ![c] = raw_query[c]]
    /\ pc' = [pc EXCEPT ![c] = "done"]
    /\ trace' = [trace EXCEPT ![c] = Append(@, <<"return">>)]
    /\ UNCHANGED <<endpoint_url, query, limit, raw_query, idx, ncalls>>

Step(c) == FormatStep(c) \/ LoopStep(c) \/ ReturnStep(c)

Next == \E c \in Callers : Call(c) \/ FormatStep(c) \/ LoopStep(c) \/ ReturnStep(c)

Spec == Init /\ [][Next]_vars

FairSpec == Spec /\ \A c \in Callers : WF_vars(Step(c))

(* One call on inputs drawn from the bounded input sets. *)

InitFn ==
    /\ pc = [c \in Callers |-> IF c = FnCaller THEN "format" ELSE "idle"]
    /\ \E e \in Endpoints, q \in Queries, n \in Limits :
          /\ endpoint_url = [c \in Callers |-> IF c = FnCaller THEN e ELSE <<>>]
          /\ query = [c \in Callers |-> IF c = FnCaller THEN q ELSE <<>>]
          /\ limit = [c \in Callers |-> IF c = FnCaller THEN n ELSE 0]
    /\ raw_query = [c \in Callers |-> <<>>]
    /\ idx = [c \in Callers |-> 1]
    /\ result = [c \in Callers |-> <<>>]
    /\ ncalls = 1
    /\ trace = [c \in Callers |-> <<>>]

NextFn == FormatStep(FnCaller) \/ LoopStep(FnCaller) \/ ReturnStep(FnCaller)

SpecFn == InitFn /\ [][NextFn]_vars

TypeOK ==
    /\ pc \in [Callers -> {"idle", "format", "loop", "done"}]
    /\ idx \in [Callers -> 1..(Len(replacements) + 1)]
    /\ ncalls \in 0..MaxCalls

(* --------------------- vocabulary of the properties ------------------- *)

HasChar(s, ch) == \E k \in 1..Len(s) : s[k] = ch

NoWhitespace(s) == ~HasChar(s, SP) /\ ~HasChar(s, NL)

CountIn(s, set) == Cardinality({k \in 1..Len(s) : s[k] \in set})

RECURSIVE EncodeChars(_, _)
EncodeChars(s, set) ==
    IF s = <<>> THEN <<>>
    ELSE (IF Head(s) \in set THEN <<"%","2","0">> ELSE <<Head(s)>>)
            \o EncodeChars(Tail(s), set)

Suffix(s, n) == SubSeq(s, Len(s) - n + 1, Len(s))

Assembled(c) == Format(endpoint_url[c], query[c], limit[c])

SameInputs(c, d) ==
    /\ endpoint_url[c] = endpoint_url[d]
    /\ query[c] = query[d]
    /\ limit[c] = limit[d]

FullPath ==
    << <<"format">>, <<"replace", SP>>, <<"replace", NL>>, <<"return">> >>

(* ------------------------------ C1 ------------------------------------ *)

(* C1 as stated: for inputs without space or newline and n >= 0 the call   *)
(* returns e + "?$query=" + q + "%20limit " + str(n), a literal space      *)
(* remaining between "limit" and the number.                               *)
C1_LiteralSpaceKept ==
    \A c \in Callers :
        (pc[c] = "done" /\ NoWhitespace(endpoint_url[c]) /\ NoWhitespace(query[c])
            /\ limit[c] >= 0)
        => result[c] = endpoint_url[c] \o <<"?","$","q","u","e","r","y","=">> \o query[c]
                          \o <<"%","2","0","l","i","m","i","t"," ">> \o IntToStr(limit[c])

(* C1 amended: for inputs without space or newline and n >= 0 the call     *)
(* returns e + "?$query=" + q + "%20limit%20" + str(n): the template's     *)
(* own space before the number is encoded as well.                         *)
C1_TemplateSpaceEncoded ==
    \A c \in Callers :
        (pc[c] = "done" /\ NoWhitespace(endpoint_url[c]) /\ NoWhitespace(query[c])
            /\ limit[c] >= 0)
        => result[c] = endpoint_url[c] \o <<"?","$","q","u","e","r","y","=">> \o query[c]
                          \o <<"%","2","0","l","i","m","i","t","%","2","0">>
                          \o IntToStr(limit[c])

C1_Witness ==
    \E c \in Callers :
        /\ pc[c] = "done"
        /\ endpoint_url[c] = ExampleUrl
        /\ query[c] = <<"a", "a">>
        /\ limit[c] = 10
        /\ Suffix(result[c], 2) = <<"1", "0">>

(* ------------------------------ C2 ------------------------------------ *)

(* C2: every space of the assembled string, from an input or from the      *)
(* template, is replaced by "%20" by the first loop iteration, and the     *)
(* returned string contains no space.                                      *)
C2_NoSpaceInResult ==
    \A c \in Callers :
        /\ (pc[c] = "loop" /\ idx[c] = 2)
              => raw_query[c] = EncodeChars(Assembled(c), {SP})
        /\ (pc[c] = "loop" /\ idx[c] >= 2) => ~HasChar(raw_query[c], SP)
        /\ pc[c] = "done" => ~HasChar(result[c], SP)

C2_Witness ==
    \E c \in Callers :
        /\ pc[c] = "done"
        /\ endpoint_url[c] = <<SP, "a">>
        /\ query[c] = <<SP, SP>>
        /\ Len(result[c]) = Len(Assembled(c)) + 8

(* ------------------------------ C3 ------------------------------------ *)

(* C3: every newline of the assembled string is replaced by "%20" by the   *)
(* second loop iteration, and the returned string contains no newline.     *)
C3_NoNewlineInResult ==
    \A c \in Callers :
        /\ (pc[c] = "loop" /\ idx[c] = 3)
              => raw_query[c] = EncodeChars(EncodeChars(Assembled(c), {SP}), {NL})
        /\ (pc[c] = "loop" /\ idx[c] = 3) => ~HasChar(raw_query[c], NL)
        /\ pc[c] = "done" => ~HasChar(result[c], NL)

C3_Witness ==
    \E c \in Callers :
        /\ pc[c] = "done"
        /\ endpoint_url[c] = <<NL, "a">>
        /\ query[c] = <<NL, NL>>
        /\ CountIn(Assembled(c), {NL}) = 3
        /\ Len(result[c]) = Len(Assembled(c)) + 8

(* ------------------------------ C4 ------------------------------------ *)

(* C4: the output is the assembled string with each space or newline       *)
(* replaced by "%20" and every other character, "%" and the reserved       *)
(* characters included, kept as it is and in the same order.               *)
C4_OthersPassThrough ==
    \A c \in Callers :
        pc[c] = "done" => result[c] = EncodeChars(Assembled(c), {SP, NL})

C4_Witness ==
    \E c \in Callers :
        /\ pc[c] = "done"
        /\ query[c] = Reserved
        /\ endpoint_url[c] = <<"a", SP>>
        /\ HasChar(result[c], "&") /\ HasChar(result[c], "#")

(* ------------------------------ C5 ------------------------------------ *)

(* C5: the substitution step is idempotent: applied to a string it has     *)
(* already been applied to, it changes nothing, and one pass leaves no     *)
(* space and no newline.                                                   *)
C5_SubstituteIdempotent ==
    \A c \in Callers :
        /\ \A s \in {endpoint_url[c], query[c], raw_query[c]} :
              /\ Substitute(Substitute(s)) = Substitute(s)
              /\ NoWhitespace(Substitute(s))
        /\ pc[c] = "done" => Substitute(result[c]) = result[c]

C5_Witness ==
    \E c \in Callers :
        /\ pc[c] = "done"
        /\ query[c] = ABNewlineC
        /\ Substitute(query[c]) # query[c]
        /\ Substitute(raw_query[c]) = result[c]

(* ------------------------------ C6 ------------------------------------ *)

(* C6 as stated: generate_query("https://example.org/resource", "a b\nc",  *)
(* 5) returns "https://example.org/resource?$query=a%20b%20c%20limit 5".   *)
C6_ScenarioLiteralSpace ==
    \A c \in Callers :
        (pc[c] = "done" /\ endpoint_url[c] = ExampleUrl /\ query[c] = ABNewlineC
            /\ limit[c] = 5)
        => result[c] = ExampleUrl \o
              <<"?","$","q","u","e","r","y","=","a","%","2","0","b","%","2","0","c",
                "%","2","0","l","i","m","i","t"," ","5">>

(* C6 amended: the same call returns                                       *)
(* "https://example.org/resource?$query=a%20b%20c%20limit%205".            *)
C6_ScenarioEncoded ==
    \A c \in Callers :
        (pc[c] = "done" /\ endpoint_url[c] = ExampleUrl /\ query[c] = ABNewlineC
            /\ limit[c] = 5)
        => result[c] = ExampleUrl \o
              <<"?","$","q","u","e","r","y","=","a","%","2","0","b","%","2","0","c",
                "%","2","0","l","i","m","i","t","%","2","0","5">>

C6_Witness ==
    \E c \in Callers :
        /\ pc[c] = "done"
        /\ endpoint_url[c] = ExampleUrl
        /\ query[c] = ABNewlineC
        /\ limit[c] = 5
        /\ Len(result[c]) = Len(ExampleUrl) + 29

(* ------------------------------ C7 ------------------------------------ *)

(* C7: two finished calls that were started with the same three inputs     *)
(* have returned the same string, whatever calls were made before them.    *)
C7_Deterministic ==
    \A c \in Callers : \A d \in Callers :
        (pc[c] = "done" /\ pc[d] = "done" /\ SameInputs(c, d))
        => result[c] = result[d]

C7_Witness ==
    \E c \in Callers : \E d \in Callers :
        /\ c # d
        /\ pc[c] = "done" /\ pc[d] = "done"
        /\ SameInputs(c, d)
        /\ query[c] = <<NL, "a">>
        /\ ncalls >= 3
        /\ result[c] # <<>>

(* ------------------------------ C8 ------------------------------------ *)

C8_ResultAsAlone ==
    \A c \in Callers :
        pc[c] = "done" => result[c] = generate_query(endpoint_url[c], query[c], limit[c])

C8_FramesPrivate ==
    \A c \in Callers :
        /\ (pc'[c] = pc[c] /\ idx'[c] = idx[c])
              => /\ raw_query'[c] = raw_query[c]
                 /\ result'[c] = result[c]
                 /\ trace'[c] = trace[c]
        /\ (pc[c] \in {"format", "loop"})
              => /\ endpoint_url'[c] = endpoint_url[c]
                 /\ query'[c] = query[c]
                 /\ limit'[c] = limit[c]

(* C8: with the steps of several calls interleaved in any order, each      *)
(* call's result equals the result of running it alone, a step of one      *)
(* call changes nothing of another call, and no call changes its inputs.   *)
C8_CallsIndependent == []C8_ResultAsAlone /\ [][C8_FramesPrivate]_vars

C8_Witness ==
    \E c \in Callers : \E d \in Callers :
        /\ c # d
        /\ pc[c] = "done"
        /\ pc[d] = "loop" /\ idx[d] = 2
        /\ query[c] # query[d]
        /\ raw_query[d] # result[c]
        /\ HasChar(raw_query[d], NL)

(* ------------------------------ C9 ------------------------------------ *)

C9_OnPath ==
    \A c \in Callers :
        /\ pc[c] = "idle" => trace[c] = <<>>
        /\ pc[c] = "format" => trace[c] = <<>>
        /\ pc[c] = "loop"
              => /\ trace[c] = SubSeq(FullPath, 1, idx[c])
                 /\ idx[c] = 1 => raw_query[c] = Assembled(c)
                 /\ idx[c] = 2 => raw_query[c] = EncodeChars(Assembled(c), {SP})
                 /\ idx[c] >= 2 =>
                       Suffix(raw_query[c], 11 + Len(IntToStr(limit[c]))) =
                          <<"%","2","0","l","i","m","i","t","%","2","0">>
                             \o IntToStr(limit[c])
        /\ pc[c] = "done"
              => /\ trace[c] = FullPath
                 /\ Suffix(result[c], 11 + Len(IntToStr(limit[c]))) =
                       <<"%","2","0","l","i","m","i","t","%","2","0">>
                          \o IntToStr(limit[c])

C9_InOrder ==
    \A c \in Callers :
        pc'[c] # pc[c] =>
            \/ pc[c] \in {"idle", "done"} /\ pc'[c] = "format"
            \/ pc[c] = "format" /\ pc'[c] = "loop"
            \/ pc[c] = "loop" /\ pc'[c] = "done"

C9_Returns == \A c \in Callers : (pc[c] = "format") ~> (pc[c] = "done")

(* C9: every call runs format, then the space replacement, then the        *)
(* newline replacement, then return, each once; the "%20" written by the   *)
(* format step survives both replacements; and every call returns.         *)
C9_SinglePath == []C9_OnPath /\ [][C9_InOrder]_vars /\ C9_Returns

C9_Witness ==
    \E c \in Callers :
        /\ pc[c] = "done"
        /\ trace[c] = FullPath
        /\ query[c] = <<NL, "a">>
        /\ endpoint_url[c] = <<"a", SP>>
        /\ result[c] # <<>>

(* ------------------------------ C10 ----------------------------------- *)

(* C10: for n >= 0 the output is enc(e) + "?$query=" + enc(q) +            *)
(* "%20limit%20" + str(n); it is 2 longer than the assembled string for    *)
(* each space or newline in it; and doing the newline replacement before   *)
(* the space replacement gives the same output.                            *)
C10_EncodingDistributes ==
    \A c \in Callers :
        (pc[c] = "done" /\ limit[c] >= 0)
        => /\ result[c] =
                 EncodeChars(endpoint_url[c], {SP, NL})
                    \o <<"?","$","q","u","e","r","y","=">>
                    \o EncodeChars(query[c], {SP, NL})
                    \o <<"%","2","0","l","i","m","i","t","%","2","0">>
                    \o IntToStr(limit[c])
           /\ Len(result[c]) = Len(Assembled(c)) + 2 * CountIn(Assembled(c), {SP, NL})
           /\ result[c] = ApplyFrom(Assembled(c), ReplacementsNewlineFirst, 1)

C10_Witness ==
    \E c \in Callers :
        /\ pc[c] = "done"
        /\ limit[c] = 7
        /\ endpoint_url[c] = <<NL, SP>>
        /\ query[c] = <<SP, NL>>
        /\ Len(result[c]) = Len(Assembled(c)) + 10

====
